---- MODULE Spec2Model ----
(***************************************************************************)
(* A model of physical-inventory-dashboard.py: the cached refresh          *)
(* load_and_prep_data (grid read, flattening, 7-day snapshot of the        *)
(* HISTORY LOG sheet, stockouts, expiry status, anomalies) and the two     *)
(* derived views computed by the page script (redistribution matches and   *)
(* the stockout forecaster).                                                *)
(*                                                                         *)
(* Text that the code inspects character by character (facility names,     *)
(* lot numbers, expiry labels) is a sequence of one-character strings.     *)
(* A missing cell (pandas NaN) is the value NaN.  Dates are day numbers    *)
(* counted from 2000-01-01 (day 0); an optional date or number is <<>>     *)
(* (NaT / NaN) or <<d>>.                                                   *)
(***************************************************************************)
EXTENDS Integers, Sequences, FiniteSets, TLC

VARIABLES
    grid,       \* the PHYSICAL INVENTORY1 sheet as conn.read returns it
    log,        \* the HISTORY LOG sheet: [rows, hasDate]
    day,        \* days elapsed since StartDate on the UTC+8 calendar
    age,        \* seconds since the cache entry was stored (saturates at CacheTTL)
    cache,      \* st.cache_data entry of load_and_prep_data: <<>> or <<result>>
    view,       \* what the last script run showed
    last,       \* the last execution of load_and_prep_data (what it read, wrote, returned)
    sel,        \* the widget selections of the last script run (tab 6)
    inflight    \* executions of load_and_prep_data in other server processes

vars == <<grid, log, day, age, cache, view, last, sel, inflight>>

----------------------------------------------------------------------------
(* Text helpers: str.strip, str.upper, str.contains, str.split              *)

NaN == <<"<NaN>">>

Lower == <<"a","b","c","d","e","f","g","h","i","j","k","l","m",
           "n","o","p","q","r","s","t","u","v","w","x","y","z">>
Upper == <<"A","B","C","D","E","F","G","H","I","J","K","L","M",
           "N","O","P","Q","R","S","T","U","V","W","X","Y","Z">>

upperChar(c) ==
    IF \E i \in 1..Len(Lower) : Lower[i] = c
    THEN Upper[CHOOSE i \in 1..Len(Lower) : Lower[i] = c]
    ELSE c

upper(s) == [i \in 1..Len(s) |-> upperChar(s[i])]

RECURSIVE lstrip(_)
lstrip(s) == IF s # <<>> /\ Head(s) = " " THEN lstrip(Tail(s)) ELSE s

RECURSIVE rstrip(_)
rstrip(s) ==
    IF s # <<>> /\ s[Len(s)] = " " THEN rstrip(SubSeq(s, 1, Len(s) - 1)) ELSE s

strip(s) == rstrip(lstrip(s))

\* str(x) of a cell: a missing cell prints as "nan".
str(x) == IF x = NaN THEN <<"n","a","n">> ELSE x

\* pat occurs in s as a substring
contains(s, pat) ==
    \E i \in 1..(Len(s) - Len(pat) + 1) : SubSeq(s, i, i + Len(pat) - 1) = pat

\* the positions of character c in s
positions(s, c) == {i \in 1..Len(s) : s[i] = c}

----------------------------------------------------------------------------
(* Calendar helpers: calendar.monthrange, pd.to_datetime of a civil date,   *)
(* strftime('%Y-%m-%d')                                                      *)

isleap(y) == (y % 4 = 0) /\ ((y % 100 # 0) \/ (y % 400 = 0))

mdays(y, m) ==
    IF m = 2 THEN (IF isleap(y) THEN 29 ELSE 28)
    ELSE IF m \in {4, 6, 9, 11} THEN 30 ELSE 31

\* days of a common year before the first of each month
DaysBefore == <<0, 31, 59, 90, 120, 151, 181, 212, 243, 273, 304, 334>>

daysBeforeMonth(y, m) ==
    DaysBefore[m] + (IF m > 2 /\ isleap(y) THEN 1 ELSE 0)

\* leap years in 2000..y-1
leapsBefore(y) ==
    LET n == y - 1
    IN  (n \div 4 - 499) - (n \div 100 - 19) + (n \div 400 - 4)

\* day number of the civil date y-m-d, y >= 2000, counted from 2000-01-01
toOrdinal(y, m, d) ==
    (y - 2000) * 365 + leapsBefore(y) + daysBeforeMonth(y, m) + (d - 1)

YearSpan == 2000..2100

\* the civil date of a day number (the text strftime('%Y-%m-%d') prints)
strftime(n) ==
    LET y == CHOOSE yy \in YearSpan :
                 toOrdinal(yy, 1, 1) <= n /\ n < toOrdinal(yy + 1, 1, 1)
        m == CHOOSE mm \in 1..12 :
                 /\ toOrdinal(y, mm, 1) <= n
                 /\ n < toOrdinal(y, mm, 1) + mdays(y, mm)
    IN  <<y, m, n - toOrdinal(y, m, 1) + 1>>

\* pd.to_datetime(text, errors='coerce') of a 'Date' cell: a cell is NaN,
\* or the civil date <<y, m, d>> its text spells; an impossible date (text
\* that is no date) coerces to NaT.
to_datetime(c) ==
    IF c = NaN THEN <<>>
    ELSE IF /\ c[1] \in YearSpan
            /\ c[2] \in 1..12
            /\ c[3] \in 1..mdays(c[1], c[2])
         THEN <<toOrdinal(c[1], c[2], c[3])>>
         ELSE <<>>

----------------------------------------------------------------------------
(* Date Normalizer: parse_expiry, and the status of a record                *)

Digits == <<"0","1","2","3","4","5","6","7","8","9">>

isDigit(c) == \E i \in 1..Len(Digits) : Digits[i] = c

digitVal(c) == (CHOOSE i \in 1..Len(Digits) : Digits[i] = c) - 1

RECURSIVE digitsVal(_)
digitsVal(s) ==
    IF s = <<>> THEN 0
    ELSE digitsVal(SubSeq(s, 1, Len(s) - 1)) * 10 + digitVal(s[Len(s)])

\* Python int(text): surrounding blanks and one sign are allowed; <<>> stands
\* for the ValueError it raises otherwise.
int(s) ==
    LET t    == strip(s)
        neg  == t # <<>> /\ Head(t) = "-"
        body == IF t # <<>> /\ Head(t) \in {"-", "+"} THEN Tail(t) ELSE t
    IN  IF body # <<>> /\ \A i \in 1..Len(body) : isDigit(body[i])
        THEN <<IF neg THEN 0 - digitsVal(body) ELSE digitsVal(body)>>
        ELSE <<>>

\* the years pd.Timestamp can hold in full
MinYear == 1678
MaxYear == 2261

\* pd.to_datetime(val) of text that is not of the form a/b: an ISO date
\* YYYY-MM-DD is read; every other text of the model is no date (NaT).
genericParse(s) ==
    IF /\ Len(s) = 10
       /\ s[5] = "-" /\ s[8] = "-"
       /\ \A i \in {1, 2, 3, 4, 6, 7, 9, 10} : isDigit(s[i])
    THEN LET y == digitsVal(SubSeq(s, 1, 4))
             m == digitsVal(SubSeq(s, 6, 7))
             d == digitsVal(SubSeq(s, 9, 10))
         IN  IF y \in MinYear..MaxYear /\ m \in 1..12 /\ d \in 1..mdays(y, m)
             THEN <<toOrdinal(y, m, d)>>
             ELSE <<>>
    ELSE <<>>

\* parse_expiry resolving a month label to the first day of the month
parse_expiry_first_day(val) ==
    LET val_str == strip(str(val))
        slashes == positions(val_str, "/")
    IN  IF Cardinality(slashes) = 1
        THEN LET k     == CHOOSE i \in slashes : TRUE
                 month == int(SubSeq(val_str, 1, k - 1))
                 yr    == int(SubSeq(val_str, k + 1, Len(val_str)))
             IN  IF month = <<>> \/ yr = <<>> THEN <<>>
                 ELSE LET year == IF yr[1] < 100 THEN yr[1] + 2000 ELSE yr[1]
                      IN  IF month[1] \in 1..12 /\ year \in MinYear..MaxYear
                          THEN <<toOrdinal(year, month[1], 1)>>
                          ELSE <<>>
        ELSE genericParse(str(val))

parse_expiry(val) ==
    LET val_str == strip(str(val))
        slashes == positions(val_str, "/")
    IN  IF slashes # {}
        THEN IF Cardinality(slashes) = 1
             THEN LET k     == CHOOSE i \in slashes : TRUE
                      month == int(SubSeq(val_str, 1, k - 1))
                      yr    == int(SubSeq(val_str, k + 1, Len(val_str)))
                  IN  IF month = <<>> \/ yr = <<>> THEN <<>>
                      ELSE LET year == IF yr[1] < 100 THEN yr[1] + 2000 ELSE yr[1]
                           IN  IF month[1] \in 1..12 /\ year \in MinYear..MaxYear
                               THEN <<toOrdinal(year, month[1], mdays(year, month[1]))>>
                               ELSE <<>>
             ELSE genericParse(str(val))
        ELSE genericParse(str(val))

\* (Expiry Date - today_date).dt.days
days_to_expiry(expiry_date, today) ==
    IF expiry_date = <<>> THEN <<>> ELSE <<expiry_date[1] - today>>

CriticalDays == 60
WarningDays == 120

\* get_status with the 60-day bound exclusive
get_status_exclusive(days) ==
    IF days = <<>> THEN "UNKNOWN"
    ELSE IF days[1] < 0 THEN "EXPIRED"
    ELSE IF days[1] < CriticalDays THEN "CRITICAL"
    ELSE IF days[1] <= WarningDays THEN "WARNING"
    ELSE "SAFE"

get_status(days) ==
    IF days = <<>> THEN "UNKNOWN"
    ELSE IF days[1] < 0 THEN "EXPIRED"
    ELSE IF days[1] <= CriticalDays THEN "CRITICAL"
    ELSE IF days[1] <= WarningDays THEN "WARNING"
    ELSE "SAFE"

----------------------------------------------------------------------------
(* Grid Parser and Matrix Flattener (load_and_prep_data, lines 102-122)     *)
(*                                                                         *)
(* A grid is [vaccines, lots, expiries, rows]: the three metadata rows from *)
(* column 2 on, and the data rows as [fac, cells].  A vaccine name is an    *)
(* atom (NaNVax for an empty header cell); a quantity cell is <<n>> for a   *)
(* whole number and <<>> for an empty or non-numeric cell.                  *)

NaNVax == "<NaN>"

RECURSIVE ffillAt(_, _)
ffillAt(s, i) ==
    IF s[i] # NaNVax THEN s[i]
    ELSE IF i = 1 THEN NaNVax ELSE ffillAt(s, i - 1)

ffill(s) == [i \in 1..Len(s) |-> ffillAt(s, i)]

ExclusionWords == {<<"T","O","T","A","L">>,
                   <<"E","X","P","I","R","I","N","G">>,
                   <<"M","O","N","T","H","S">>}

\* str.contains('TOTAL|EXPIRING|MONTHS', case=False)
excluded(fac) == \E w \in ExclusionWords : contains(upper(str(fac)), w)

\* dropna(subset=['Health Facility']) and the exclusion filter
facility_rows(g) ==
    SelectSeq(g.rows, LAMBDA r : r.fac # NaN /\ ~excluded(r.fac))

\* pd.to_numeric(errors='coerce').fillna(0).astype(int)
to_qty(cell) == IF cell = <<>> THEN 0 ELSE cell[1]

\* the record of data row r and column c
melt_row(g, r, c) ==
    [Health_Facility |-> r.fac,
     ColIndex        |-> c,
     Qty             |-> to_qty(r.cells[c]),
     Vaccine         |-> ffill(g.vaccines)[c],
     Lot             |-> str(g.lots[c]),
     Expiry          |-> str(g.expiries[c]),
     Facility_Clean  |-> upper(strip(str(r.fac)))]

\* melt: column by column, the data rows in sheet order
melted_of(g) ==
    LET rows == facility_rows(g)
        n    == Len(rows)
        k    == Len(g.vaccines)
    IN  [i \in 1..(n * k) |->
            melt_row(g, rows[((i - 1) % n) + 1], ((i - 1) \div n) + 1)]

RECURSIVE sumQty(_)
sumQty(rs) == IF rs = <<>> THEN 0 ELSE Head(rs).Qty + sumQty(Tail(rs))

\* the distinct values of s, each at its first place
distinct(s) ==
    LET firsts == SelectSeq([i \in 1..Len(s) |-> i],
                      LAMBDA i : \A j \in 1..(i - 1) : s[j] # s[i])
    IN  [k \in 1..Len(firsts) |-> s[firsts[k]]]

\* groupby(['Health Facility', 'Vaccine'])['Qty'].sum().reset_index(): one
\* row per group; groupby drops the rows whose key holds a NaN.  (pandas
\* lists the groups in key order; here they keep their first place.)
group_totals(m) ==
    LET keyed == SelectSeq(m, LAMBDA r : r.Vaccine # NaNVax)
        keys  == distinct([i \in 1..Len(keyed) |->
                     <<keyed[i].Health_Facility, keyed[i].Vaccine>>])
    IN  [i \in 1..Len(keys) |->
            [Health_Facility |-> keys[i][1],
             Facility_Clean  |-> upper(strip(str(keys[i][1]))),
             Vaccine         |-> keys[i][2],
             Qty |-> sumQty(SelectSeq(keyed, LAMBDA r :
                        r.Health_Facility = keys[i][1] /\ r.Vaccine = keys[i][2]))]]

----------------------------------------------------------------------------
(* The 7-day snapshot of the HISTORY LOG (lines 124-153)                    *)
(*                                                                         *)
(* A history frame is [rows, hasDate]: the sheet's rows in order, each     *)
(* [Date, Health_Facility, Vaccine, Qty], and whether it has a 'Date'       *)
(* column.  A 'Date' cell is NaN or the civil date its text spells.         *)

SnapshotDays == 7

EmptyHistory == [rows |-> <<>>, hasDate |-> TRUE]

\* lines 89-96 and 125-126: the frame the snapshot logic works on
history_frame(readOk, sheet) ==
    LET history_df == IF readOk THEN sheet ELSE EmptyHistory
    IN  IF history_df.rows = <<>> \/ ~history_df.hasDate
        THEN EmptyHistory
        ELSE history_df

\* line 129: the greatest date of the column, NaT when it holds none
maxDate(rows) ==
    LET dates == {to_datetime(rows[i].Date) : i \in 1..Len(rows)} \ {<<>>}
    IN  IF dates = {} THEN <<>>
        ELSE CHOOSE d \in dates : \A e \in dates : e[1] <= d[1]

\* lines 128-138
needs_update(history_df, today) ==
    LET last_snapshot_date == maxDate(history_df.rows)
    IN  IF last_snapshot_date = <<>> THEN TRUE
        ELSE today - last_snapshot_date[1] >= SnapshotDays

\* lines 141-142: one row per (Health Facility, Vaccine) group, dated today
snap_df(m, today) ==
    LET g == group_totals(m)
        d == strftime(today)
    IN  [i \in 1..Len(g) |->
            [Date            |-> d,
             Health_Facility |-> g[i].Health_Facility,
             Vaccine         |-> g[i].Vaccine,
             Qty             |-> g[i].Qty]]

\* line 145
updated_history(history_df, m, today) ==
    [rows |-> history_df.rows \o snap_df(m, today), hasDate |-> TRUE]

\* lines 147-153 with line 149 moved before the try: the batch is kept in
\* the returned history although the write failed
returned_history_unpersisted(history_df, m, today, writeOk) ==
    IF needs_update(history_df, today)
    THEN updated_history(history_df, m, today)
    ELSE history_df

\* lines 147-153: the history the refresh returns
returned_history(history_df, m, today, writeOk) ==
    IF needs_update(history_df, today) /\ writeOk
    THEN updated_history(history_df, m, today)
    ELSE history_df

\* conn.update taken as adding the batch below whatever the sheet holds
sheet_after_appended(sheet, history_df, m, today, writeOk) ==
    IF needs_update(history_df, today) /\ writeOk
    THEN [rows |-> sheet.rows \o snap_df(m, today), hasDate |-> TRUE]
    ELSE sheet

\* line 148: conn.update replaces the sheet's content by the frame it is
\* given; a failed update leaves the sheet as it was.
sheet_after(sheet, history_df, m, today, writeOk) ==
    IF needs_update(history_df, today) /\ writeOk
    THEN updated_history(history_df, m, today)
    ELSE sheet

----------------------------------------------------------------------------
(* Stockouts, expiry status and anomalies (lines 157-209)                   *)

\* lines 158-159 (Facility_Clean is a function of Health Facility, so the
\* groups are those of (Health Facility, Vaccine))
stockouts_of(m) == SelectSeq(group_totals(m), LAMBDA t : t.Qty = 0)

\* lines 162-188
clean_row(r, today) ==
    LET e == parse_expiry(r.Expiry)
    IN  [Health_Facility |-> r.Health_Facility,
         Facility_Clean  |-> r.Facility_Clean,
         Vaccine         |-> r.Vaccine,
         Lot             |-> r.Lot,
         Expiry          |-> r.Expiry,
         Qty             |-> r.Qty,
         Expiry_Date     |-> e,
         Days_to_Expiry  |-> days_to_expiry(e, today),
         Status          |-> get_status(days_to_expiry(e, today))]

clean_of(m, today) ==
    LET pos == SelectSeq(m, LAMBDA r : r.Qty > 0)
    IN  [i \in 1..Len(pos) |-> clean_row(pos[i], today)]

BlankLots == {<<>>, <<"n","a","n">>, <<"N","o","n","e">>, <<"N","A","N">>}

\* line 200
missing_lot(r) == strip(str(r.Lot)) \in BlankLots

anomaly(kind, r) ==
    [kind |-> kind, Health_Facility |-> r.Health_Facility,
     Vaccine |-> r.Vaccine, Lot |-> r.Lot, Qty |-> r.Qty]

\* lines 192-207
anomalies_of(m, c) ==
    LET neg == SelectSeq(m, LAMBDA r : r.Qty < 0)
        lot == SelectSeq(c, missing_lot)
        exp == SelectSeq(c, LAMBDA r : r.Expiry_Date = <<>>)
    IN  [i \in 1..Len(neg) |-> anomaly("NEGATIVE_QUANTITY", neg[i])]
        \o [i \in 1..Len(lot) |-> anomaly("MISSING_LOT", lot[i])]
        \o [i \in 1..Len(exp) |-> anomaly("MISSING_EXPIRY", exp[i])]

\* line 209: what load_and_prep_data returns (load_time left out)
result_of(g, history_df, today, writeOk) ==
    LET m == melted_of(g)
        c == clean_of(m, today)
    IN  [clean_df   |-> c,
         stockouts  |-> stockouts_of(m),
         history    |-> returned_history(history_df, m, today, writeOk),
         melted     |-> m,
         anomalies  |-> anomalies_of(m, c)]

----------------------------------------------------------------------------
(* The page script below line 211: global filter, tab 5 and tab 6           *)

\* lines 240-243
filtered(rows, global_facility_filter) ==
    IF global_facility_filter = {} THEN rows
    ELSE SelectSeq(rows, LAMBDA r : r.Health_Facility \in global_facility_filter)

SurplusQty == 50

\* line 458
donors_of(df, s) ==
    SelectSeq(df, LAMBDA r : /\ r.Vaccine = s.Vaccine
                             /\ r.Qty > SurplusQty
                             /\ r.Health_Facility # s.Health_Facility)

\* sort_values(by='Days to Expiry').iloc[0]: the least number of days, the
\* rows without one (NaN) last; rows that tie keep their order
sooner(a, b) ==
    a.Days_to_Expiry # <<>>
        /\ (b.Days_to_Expiry = <<>> \/ a.Days_to_Expiry[1] < b.Days_to_Expiry[1])

first_by_days(ds) ==
    ds[CHOOSE i \in 1..Len(ds) :
          /\ \A j \in 1..Len(ds) : ~sooner(ds[j], ds[i])
          /\ \A j \in 1..(i - 1) : sooner(ds[i], ds[j])]

\* lines 461-468 for one stockout row with donors: <<>> stands for the
\* ValueError of NaT.strftime
suggestion(df, s) ==
    LET best_donor == first_by_days(donors_of(df, s))
    IN  IF best_donor.Expiry_Date = <<>> THEN <<>>
        ELSE <<[To_Facility        |-> s.Health_Facility,
                Vaccine_needed     |-> s.Vaccine,
                Take_from_Facility |-> best_donor.Health_Facility,
                Available_Vials    |-> best_donor.Qty,
                Donor_Days         |-> best_donor.Days_to_Expiry[1]]>>

\* lines 454-468: the loop over the stockout rows; it ends at the first
\* suggestion that raises
suggestions(df, stockouts) ==
    LET matched == SelectSeq([i \in 1..Len(stockouts) |-> i],
                       LAMBDA i : donors_of(df, stockouts[i]) # <<>>)
        failing == {k \in 1..Len(matched) :
                       suggestion(df, stockouts[matched[k]]) = <<>>}
        done    == IF failing = {} THEN Len(matched)
                   ELSE (CHOOSE k \in failing : \A j \in failing : k <= j) - 1
    IN  [raised |-> failing # {},
         rows   |-> [k \in 1..done |-> suggestion(df, stockouts[matched[k]])[1]]]

\* tab 5 (lines 440-475)
tab5(res, global_facility_filter) ==
    suggestions(filtered(res.clean_df, global_facility_filter),
                filtered(res.stockouts, global_facility_filter))
\* tab 6 (lines 482-547).  A series row is [Date, Qty], Date an optional
\* day number.

AllFacilities == <<"A","L","L">>

\* line 486 and 497: the provincial total per date (groupby drops NaT)
total_df(rows, hist_vax) ==
    LET sel_rows == SelectSeq(rows, LAMBDA r :
                        r.Vaccine = hist_vax /\ to_datetime(r.Date) # <<>>)
        dates    == distinct([i \in 1..Len(sel_rows) |-> to_datetime(sel_rows[i].Date)])
    IN  [i \in 1..Len(dates) |->
            [Date |-> dates[i],
             Qty  |-> sumQty(SelectSeq(sel_rows, LAMBDA r :
                          to_datetime(r.Date) = dates[i]))]]

\* lines 502 and 507: the rows of one facility
facility_df(rows, hist_vax, fac) ==
    LET sel_rows == SelectSeq(rows, LAMBDA r :
                        r.Vaccine = hist_vax /\ r.Health_Facility = fac)
    IN  [i \in 1..Len(sel_rows) |->
            [Date |-> to_datetime(sel_rows[i].Date), Qty |-> sel_rows[i].Qty]]

\* a is dated before b (a row without a date sorts last)
before(a, b) ==
    a.Date # <<>> /\ (b.Date = <<>> \/ a.Date[1] < b.Date[1])

\* sort_values('Date'): the place of row i, rows that tie in sheet order
rank(s, i) ==
    Cardinality({j \in 1..Len(s) :
        before(s[j], s[i]) \/ (~before(s[i], s[j]) /\ j < i)}) + 1

sort_by_date(s) ==
    [k \in 1..Len(s) |-> s[CHOOSE i \in 1..Len(s) : rank(s, i) = k]]

\* lines 526-547 for one sorted series
forecast(fac_df) ==
    IF Len(fac_df) >= 2
    THEN LET first_record  == fac_df[1]
             last_record   == fac_df[Len(fac_df)]
             dated         == first_record.Date # <<>> /\ last_record.Date # <<>>
             days_diff     == IF dated THEN last_record.Date[1] - first_record.Date[1]
                              ELSE 0
             qty_diff      == first_record.Qty - last_record.Qty
             current_stock == last_record.Qty
         IN  IF dated /\ days_diff > 0 /\ qty_diff > 0
             THEN IF current_stock > 0
                  THEN [msg |-> "PROJECTED",
                        days_left |-> (current_stock * days_diff) \div qty_diff]
                  ELSE [msg |-> "OUT_OF_STOCK", days_left |-> 0]
             ELSE IF qty_diff < 0
                  THEN [msg |-> "RESTOCKED", days_left |-> 0]
                  ELSE [msg |-> "NO_CONSUMPTION", days_left |-> 0]
    ELSE [msg |-> "NOT_ENOUGH_HISTORY", days_left |-> 0]

\* lines 522-524: the series the forecaster reads for one selected entry
series(history, hist_vax, hist_facility, facility) ==
    IF facility = AllFacilities
    THEN sort_by_date(total_df(history.rows, hist_vax))
    ELSE sort_by_date(facility_df(history.rows, hist_vax, facility))

\* tab 6: what the forecaster says of each selected entry; nothing when the
\* history is empty or no row is selected (lines 482, 509)
tab6(res, hist_vax, hist_facility) ==
    IF res.history.rows = <<>> \/ ~res.history.hasDate THEN <<>>
    ELSE IF \A f \in hist_facility :
                series(res.history, hist_vax, hist_facility, f) = <<>>
         THEN <<>>
         ELSE <<[f \in hist_facility |->
                    forecast(series(res.history, hist_vax, hist_facility, f))]>>
----------------------------------------------------------------------------
(* Widget state of the page: the global facility filter (line 229), the     *)
(* vaccine and the facilities of tab 6 (lines 491-494)                      *)

MaxFilter == 1
MaxCompare == 2

VaccineOrder == <<"BCG", "OPV">>

filter_options(res) ==
    {res.clean_df[i].Health_Facility : i \in 1..Len(res.clean_df)}

vax_options(res) ==
    {res.history.rows[i].Vaccine : i \in 1..Len(res.history.rows)}

facility_options(res) ==
    {AllFacilities}
        \cup {res.history.rows[i].Health_Facility : i \in 1..Len(res.history.rows)}

NoVax == "<none>"

\* the widgets' defaults: no filter, the first vaccine in sorted order, the
\* provincial total
default_vax(res) ==
    IF \E i \in 1..Len(VaccineOrder) : VaccineOrder[i] \in vax_options(res)
    THEN VaccineOrder[CHOOSE i \in 1..Len(VaccineOrder) :
             /\ VaccineOrder[i] \in vax_options(res)
             /\ \A j \in 1..(i - 1) : VaccineOrder[j] \notin vax_options(res)]
    ELSE NoVax

\* what the user may set the global filter to
filters(res) ==
    {x \in SUBSET filter_options(res) : Cardinality(x) <= MaxFilter}

\* what the user may set the widgets of tab 6 to
comparisons(res) ==
    {x \in SUBSET facility_options(res) : Cardinality(x) <= MaxCompare}

\* a widget whose options no longer hold its value starts again from its
\* default
kept(s, res) ==
    [filter        |-> IF s.filter \subseteq filter_options(res)
                       THEN s.filter ELSE {},
     hist_vax      |-> IF s.hist_vax \in vax_options(res)
                       THEN s.hist_vax ELSE default_vax(res),
     hist_facility |-> IF s.hist_facility \subseteq facility_options(res)
                       THEN s.hist_facility ELSE {AllFacilities}]

----------------------------------------------------------------------------
(* State                                                                    *)

CacheTTL == 300
TickSeconds == 150
MaxDay == 9
DayStep == 3

\* the UTC+8 calendar day of the first state
StartDate == toOrdinal(2026, 11, 3)

\* lines 131-132: today_date (day counts whole UTC+8 calendar days)
today_date == StartDate + day

NoView == [kind |-> "none", result |-> <<>>]

NoSel == [filter |-> {}, hist_vax |-> NoVax, hist_facility |-> {AllFacilities}]

\* the record of the last execution of load_and_prep_data: whether the last
\* script run executed it (ran), what its reads and its write did, the sheets
\* and the date it read (grid, pre, today), what it returned, and the last
\* result any execution returned (good)
NoLast ==
    [ran |-> FALSE, gridOk |-> TRUE, histOk |-> TRUE, attempted |-> FALSE,
     writeOk |-> TRUE, grid |-> <<>>, pre |-> EmptyHistory, today |-> 0,
     returned |-> <<>>, good |-> <<>>]

\* the server processes, other than the one of cache and view, that run the
\* script against the same spreadsheet
Procs == {1, 2}

NoneInFlight == [p \in Procs |-> <<>>]

InitWith(g, l) ==
    /\ inflight = NoneInFlight
    /\ grid = g
    /\ log = l
    /\ day = 0
    /\ age = CacheTTL
    /\ cache = <<>>
    /\ view = NoView
    /\ last = NoLast
    /\ sel = NoSel

\* the data a script run renders its page from (lines 212, 236-238)
page(res) == [kind |-> "page", result |-> <<res>>]

\* st.stop() at line 100: the error alone is shown
stopped == [kind |-> "stopped", result |-> <<>>]

\* A script run served from the cache entry (line 212 with a live entry)
Hit(s) ==
    /\ view' = page(cache[1])
    /\ sel' = kept(s, cache[1])
    /\ last' = [last EXCEPT !.ran = FALSE]
    /\ UNCHANGED <<grid, log, day, age, cache, inflight>>

\* load_and_prep_data fails to read the grid (lines 98-100): nothing is
\* returned, nothing is cached, the script stops
Abort(s) ==
    /\ view' = stopped
    /\ sel' = s
    /\ cache' = <<>>
    /\ age' = CacheTTL
    /\ last' = [ran |-> TRUE, gridOk |-> FALSE, histOk |-> TRUE,
                attempted |-> FALSE, writeOk |-> TRUE, grid |-> <<>>,
                pre |-> log, today |-> today_date, returned |-> <<>>,
                good |-> last.good]
    /\ UNCHANGED <<grid, log, day, inflight>>

\* load_and_prep_data runs to its return (lines 79-209) and the page renders
Load(s, histOk, writeOk) ==
    \E history_df \in {history_frame(histOk, log)} :
    \E res \in {result_of(grid, history_df, today_date, writeOk)} :
        /\ log' = sheet_after(log, history_df, res.melted, today_date, writeOk)
        /\ cache' = <<res>>
        /\ age' = 0
        /\ view' = page(res)
        /\ sel' = kept(s, res)
        /\ last' = [ran |-> TRUE, gridOk |-> TRUE, histOk |-> histOk,
                    attempted |-> needs_update(history_df, today_date),
                    writeOk |-> (needs_update(history_df, today_date) => writeOk),
                    grid |-> <<grid>>, pre |-> log, today |-> today_date,
                    returned |-> <<res>>, good |-> <<res>>]
        /\ UNCHANGED <<grid, day, inflight>>

\* a script run that calls load_and_prep_data without the cache of line 77
ScriptRun_uncached(live, s) ==
    \E gridOk \in BOOLEAN :
        IF gridOk
        THEN \E histOk \in BOOLEAN, writeOk \in BOOLEAN : Load(s, histOk, writeOk)
        ELSE Abort(s)

\* one run of the page script with the cache entry live or not
ScriptRun(live, s) ==
    IF live THEN Hit(s)
    ELSE \E gridOk \in BOOLEAN :
            IF gridOk
            THEN \E histOk \in BOOLEAN, writeOk \in BOOLEAN : Load(s, histOk, writeOk)
            ELSE Abort(s)

\* a page load: the script runs with the widgets at their defaults
Run == ScriptRun(age < CacheTTL, NoSel)

\* the user changes the global filter of a rendered page: the script runs again
SelectFilter ==
    /\ view.kind = "page"
    /\ \E f \in filters(view.result[1]) :
          /\ f # sel.filter
          /\ ScriptRun(age < CacheTTL, [sel EXCEPT !.filter = f])

\* the user changes the vaccine or the facilities of tab 6
SelectHistory ==
    /\ view.kind = "page"
    /\ \E v \in vax_options(view.result[1]) \cup {sel.hist_vax},
          h \in comparisons(view.result[1]) :
          /\ <<v, h>> # <<sel.hist_vax, sel.hist_facility>>
          /\ ScriptRun(age < CacheTTL,
                       [sel EXCEPT !.hist_vax = v, !.hist_facility = h])

\* what tab 5 and tab 6 of the rendered page show: tab 6 is not reached when
\* tab 5 raises
Tab5View == tab5(view.result[1], sel.filter)

Tab6View ==
    IF Tab5View.raised THEN <<>>
    ELSE tab6(view.result[1], sel.hist_vax, sel.hist_facility)

\* lines 223-225: st.cache_data.clear() and a rerun
ForceRefresh ==
    /\ view.kind = "page"
    /\ ScriptRun(FALSE, sel)

\* seconds pass within one calendar day; an entry as old as the ttl of line
\* 77 is gone
Tick ==
    /\ age < CacheTTL
    /\ age' = IF age + TickSeconds < CacheTTL THEN age + TickSeconds ELSE CacheTTL
    /\ cache' = IF age + TickSeconds < CacheTTL THEN cache ELSE <<>>
    /\ UNCHANGED <<grid, log, day, view, last, sel, inflight>>

\* DayStep days pass with no script run
NextDay ==
    /\ day + DayStep <= MaxDay
    /\ day' = day + DayStep
    /\ age' = CacheTTL
    /\ cache' = <<>>
    /\ UNCHANGED <<grid, log, view, last, sel, inflight>>
----------------------------------------------------------------------------
(* Sheets of the model                                                      *)

Tubo == <<"T","u","b","o">>
TuboCaps == <<"T","U","B","O"," ">>
Luba == <<"L","u","b","a">>
TotalRow == <<"T","o","t","a","l"," ","D","o","s","e","s">>

Lot1 == <<"L","1">>
Lot2 == <<"L","2">>

Dec26 == <<"1","2","/","2","6">>
Jun27 == <<"6","/","2","7">>
Unreadable == <<"s","o","o","n">>

Row(fac, cells) == [fac |-> fac, cells |-> cells]

GridA ==
    [vaccines |-> <<"BCG", NaNVax>>, lots |-> <<Lot1, NaN>>,
     expiries |-> <<Dec26, Jun27>>,
     rows |-> <<Row(Tubo, <<<<60>>, <<0>>>>), Row(Luba, <<<<0>>, <<>>>>),
                Row(TotalRow, <<<<60>>, <<0>>>>)>>]

GridB ==
    [vaccines |-> <<"BCG", "OPV">>, lots |-> <<Lot1, Lot2>>,
     expiries |-> <<Dec26, Unreadable>>,
     rows |-> <<Row(Tubo, <<<<0>>, <<70>>>>), Row(NaN, <<<<9>>, <<9>>>>),
                Row(Luba, <<<<-5>>, <<0>>>>)>>]

SampleGrids == {GridA, GridB}

HistoryRow(d, fac, vax, qty) ==
    [Date |-> d, Health_Facility |-> fac, Vaccine |-> vax, Qty |-> qty]

\* a sheet whose rows carry no 'Date' column
LegacyLog ==
    [rows |-> <<HistoryRow(NaN, Tubo, "BCG", 700)>>, hasDate |-> FALSE]

\* a sheet with one snapshot taken four days before the first state (so that
\* it is exactly SnapshotDays old after one NextDay)
RecentLog ==
    [rows |-> <<HistoryRow(strftime(StartDate - 4), Tubo, "BCG", 700)>>,
     hasDate |-> TRUE]

SampleLogs == {EmptyHistory, LegacyLog, RecentLog}

\* the operator edits the inventory sheet
EditGrid ==
    /\ \E g \in SampleGrids : g # grid /\ grid' = g
    /\ UNCHANGED <<log, day, age, cache, view, last, sel, inflight>>

Init == \E g \in SampleGrids, l \in SampleLogs : InitWith(g, l)

Next == Run \/ ForceRefresh \/ Tick \/ NextDay \/ EditGrid

Spec == Init /\ [][Next]_vars
----------------------------------------------------------------------------
(* Claims about the refresh and its cache, checked under Spec                *)

isPrefix(a, b) == Len(a) <= Len(b) /\ SubSeq(b, 1, Len(a)) = a

\* the refresh recorded in last returned, and its snapshot write was tried
\* and failed
WriteFailed == last.ran /\ last.gridOk /\ last.attempted /\ ~last.writeOk

\* C1: after any refresh, whatever its outcome, every row that was in the
\* history log before it is still there, unchanged and in the same order: a
\* refresh only adds rows after the existing ones.
C1_AppendOnly == last.ran => isPrefix(last.pre.rows, log.rows)

\* the gate of C2 on the log as it stood before the refresh: the log is empty
\* or its greatest date is at least 7 days before the reference date
gate_open(sheet, today) ==
    \/ sheet.rows = <<>>
    \/ /\ sheet.hasDate
       /\ maxDate(sheet.rows) # <<>>
       /\ today - maxDate(sheet.rows)[1] >= SnapshotDays

\* C2: a refresh appends exactly one snapshot batch (one row per (facility,
\* vaccine) group, dated with the reference date) if and only if the log is
\* empty or its greatest date is at least 7 days before the reference date;
\* in every other case it performs no write.  (The "if" half is read of a
\* refresh whose grid read and write succeed.)
C2_SnapshotGate ==
    last.ran =>
        /\ (gate_open(last.pre, last.today) /\ last.gridOk /\ last.writeOk)
              => log.rows = last.pre.rows
                     \o snap_df(melted_of(last.grid[1]), last.today)
        /\ ~gate_open(last.pre, last.today) => log = last.pre

\* C3: if the read of the grid or of the history log fails, the refresh
\* aborts: it returns no derived results and writes nothing to the log.
C3_ReadFailureAborts ==
    (last.ran /\ (~last.gridOk \/ ~last.histOk)) =>
        (last.returned = <<>> /\ log = last.pre)

\* C4: if the snapshot write fails, the refresh still returns the records,
\* stockouts and anomalies it would have returned had the write succeeded,
\* the log is left unchanged, and the returned history does not hold the
\* batch that was not persisted.
C4_WriteFailureSwallowed ==
    WriteFailed =>
        LET res  == last.returned[1]
            read == history_frame(last.histOk, last.pre)
            ok   == result_of(last.grid[1], read, last.today, TRUE)
        IN  /\ last.returned # <<>>
            /\ res.clean_df = ok.clean_df
            /\ res.stockouts = ok.stockouts
            /\ res.anomalies = ok.anomalies
            /\ log = last.pre
            /\ res.history = read
            /\ ok.history.rows = read.rows \o snap_df(res.melted, last.today)

\* a failed write, with a batch of at least one row left unwritten and rows
\* already in the history that the refresh read
C4_Witness ==
    /\ WriteFailed
    /\ snap_df(last.returned[1].melted, last.today) # <<>>
    /\ last.returned[1].history.rows # <<>>
    /\ last.returned[1].stockouts # <<>>

\* C5: after a refresh that fails, the last successfully computed result, if
\* there is one, is still the result served to the dashboard.
C5_LastGoodServed ==
    (last.ran /\ last.returned = <<>> /\ last.good # <<>>) =>
        (view.kind = "page" /\ view.result = last.good)
----------------------------------------------------------------------------
(* Specifications that draw the sheets from bounded sets and run the page   *)
(* script on them                                                           *)

Grid(vaccines, lots, expiries, rows) ==
    [vaccines |-> vaccines, lots |-> lots, expiries |-> expiries, rows |-> rows]

Names == {Tubo, TuboCaps, Luba}
Quantities == {0, 5, -5}

\* two facility rows and two lots: the names differ or not in capitals and
\* blanks, the lots are of one vaccine or of two, or the first header is empty
StockGrids ==
    {Grid(v, <<Lot1, Lot2>>, <<Dec26, Jun27>>,
          <<Row(n1, <<<<a>>, <<b>>>>), Row(n2, <<<<c>>, <<d>>>>)>>) :
        v \in {<<"BCG", NaNVax>>, <<"BCG", "OPV">>, <<NaNVax, "BCG">>},
        n1 \in Names, n2 \in Names,
        a \in Quantities, b \in Quantities, c \in Quantities, d \in Quantities}

InitStock == \E g \in StockGrids : InitWith(g, EmptyHistory)

SpecStock == InitStock /\ [][Run]_vars

LotTexts ==
    {NaN, <<>>, <<" ">>, Lot1, <<" ","L","1">>,
     <<"n","a","n">>, <<"N","A","N">>, <<"N","a","N">>, <<"n","a","n"," ">>,
     <<"N","o","n","e">>, <<"n","o","n","e">>, <<"N","O","N","E">>}

\* one facility row and two lots of one vaccine
LotGrids ==
    {Grid(<<"BCG", NaNVax>>, <<l1, l2>>, <<Dec26, Jun27>>,
          <<Row(Tubo, <<<<a>>, <<b>>>>)>>) :
        l1 \in LotTexts, l2 \in LotTexts, a \in Quantities, b \in Quantities}

InitLots == \E g \in LotGrids : InitWith(g, EmptyHistory)

SpecLots == InitLots /\ [][Run]_vars

digits2(n) == <<Digits[(n \div 10) + 1], Digits[(n % 10) + 1]>>

\* the text YYYY-MM-DD of a day number
iso(n) ==
    LET c == strftime(n)
    IN  digits2(c[1] \div 100) \o digits2(c[1] % 100) \o <<"-">>
            \o digits2(c[2]) \o <<"-">> \o digits2(c[3])

\* expiry days around the status thresholds, counted from StartDate
ExpiryOffsets == {-1, 0, 1, 59, 60, 61, 62, 63, 64, 119, 120, 121, 122, 123, 124}

ExpiryLabels ==
    {iso(StartDate + k) : k \in ExpiryOffsets}
        \cup {NaN, Unreadable, Dec26, <<"1","3","/","2","6">>, <<"1","0","/","2","6">>}

\* one facility row and two lots with stock
StatusGrids ==
    {Grid(<<"BCG", "OPV">>, <<Lot1, Lot2>>, <<e1, e2>>,
          <<Row(Tubo, <<<<5>>, <<5>>>>)>>) :
        e1 \in ExpiryLabels, e2 \in {iso(StartDate + 121), NaN}}

InitStatus == \E g \in StatusGrids : InitWith(g, EmptyHistory)

SpecStatus == InitStatus /\ [][Run \/ NextDay]_vars

FarLabels == {Dec26, Jun27, Unreadable}
DonorQuantities == {0, SurplusQty, 60, 100}

\* three facilities and two lots of one vaccine; the first facility holds none
RedistGrids ==
    {Grid(<<"BCG", NaNVax>>, <<Lot1, Lot2>>, <<e1, e2>>,
          <<Row(Tubo, <<<<0>>, <<0>>>>), Row(Luba, <<<<a>>, <<b>>>>),
            Row(TuboCaps, <<<<c>>, <<0>>>>)>>) :
        e1 \in FarLabels, e2 \in FarLabels,
        a \in DonorQuantities, b \in DonorQuantities, c \in DonorQuantities}

InitRedist == \E g \in RedistGrids : InitWith(g, EmptyHistory)

SpecRedist == InitRedist /\ [][Run \/ SelectFilter]_vars

SnapshotQuantities == {-5, 0, 5, 700}
SnapshotDates == {strftime(StartDate - 8), strftime(StartDate - 1)}

\* a history of two rows of one vaccine
ForecastLogs ==
    {[rows |-> <<HistoryRow(d1, Tubo, "BCG", q1), HistoryRow(d2, f2, "BCG", q2)>>,
      hasDate |-> TRUE] :
        d1 \in SnapshotDates, d2 \in SnapshotDates, f2 \in {Tubo, Luba},
        q1 \in SnapshotQuantities, q2 \in SnapshotQuantities}

InitForecast == \E l \in ForecastLogs : InitWith(GridA, l)

SpecForecast == InitForecast /\ [][Run \/ SelectHistory]_vars
----------------------------------------------------------------------------
(* Claims about the derived views                                            *)

Shown == view.kind = "page"

\* C6 (SpecStock): the stockout set is exactly the set of (facility, vaccine)
\* pairs, with a vaccine name, whose quantity summed over all lots of the
\* flattened set is 0: every such pair has exactly one entry and no other
\* pair has one, facility rows that differ only in capitals or surrounding
\* blanks counting as one facility.
C6_StockoutsExact ==
    Shown =>
        LET res   == view.result[1]
            named == SelectSeq(res.melted, LAMBDA r : r.Vaccine # NaNVax)
            pairs == {<<named[i].Facility_Clean, named[i].Vaccine>> :
                         i \in 1..Len(named)}
        IN  \A p \in pairs :
                Cardinality({k \in 1..Len(res.stockouts) :
                    <<res.stockouts[k].Facility_Clean, res.stockouts[k].Vaccine>> = p})
                  = IF sumQty(SelectSeq(named, LAMBDA r :
                           <<r.Facility_Clean, r.Vaccine>> = p)) = 0
                    THEN 1 ELSE 0

BlankMarkers == {<<>>, <<"N","A","N">>, <<"N","O","N","E">>}

\* C9 (SpecLots): a record is reported as a missing-lot anomaly if and only
\* if its quantity is above 0 and its lot number, trimmed, is empty or reads
\* "nan" or "none" in any letter casing.
C9_MissingLotAnyCase ==
    Shown =>
        LET res == view.result[1]
        IN  \A i \in 1..Len(res.melted) :
                LET r == res.melted[i]
                IN  (\E k \in 1..Len(res.anomalies) :
                        /\ res.anomalies[k].kind = "MISSING_LOT"
                        /\ res.anomalies[k].Health_Facility = r.Health_Facility
                        /\ res.anomalies[k].Vaccine = r.Vaccine
                        /\ res.anomalies[k].Lot = r.Lot
                        /\ res.anomalies[k].Qty = r.Qty)
                    <=> (r.Qty > 0 /\ upper(strip(r.Lot)) \in BlankMarkers)

\* C10 (SpecStatus): every record has exactly one status, fixed by its expiry
\* date and the reference date of the refresh: UNKNOWN iff the expiry date
\* is null; otherwise, with days = expiry date - reference date, EXPIRED iff
\* days < 0, CRITICAL iff 0 <= days <= 60, WARNING iff 61 <= days <= 120,
\* SAFE iff days >= 121; all records of a refresh share the reference date.
C10_StatusClassification ==
    Shown =>
        LET res == view.result[1]
        IN  \A i \in 1..Len(res.clean_df) :
                LET r == res.clean_df[i]
                IN  /\ r.Status \in {"UNKNOWN", "EXPIRED", "CRITICAL", "WARNING", "SAFE"}
                    /\ (r.Status = "UNKNOWN") <=> (r.Expiry_Date = <<>>)
                    /\ r.Expiry_Date = <<>> => r.Days_to_Expiry = <<>>
                    /\ r.Expiry_Date # <<>> =>
                          LET days == r.Expiry_Date[1] - last.today
                          IN  /\ r.Days_to_Expiry = <<days>>
                              /\ (r.Status = "EXPIRED") <=> (days < 0)
                              /\ (r.Status = "CRITICAL") <=> (0 <= days /\ days <= 60)
                              /\ (r.Status = "WARNING") <=> (61 <= days /\ days <= 120)
                              /\ (r.Status = "SAFE") <=> (days >= 121)

\* a page whose records are one at exactly 60 days (CRITICAL) and one at
\* exactly 121 days (SAFE) from the same reference date
C10_Witness ==
    /\ Shown
    /\ \E i, j \in 1..Len(view.result[1].clean_df) :
          /\ view.result[1].clean_df[i].Days_to_Expiry = <<60>>
          /\ view.result[1].clean_df[i].Status = "CRITICAL"
          /\ view.result[1].clean_df[j].Days_to_Expiry = <<121>>
          /\ view.result[1].clean_df[j].Status = "SAFE"

\* C7 (SpecRedist): for every stockout entry (vaccine V at facility X) a
\* suggestion is produced if and only if some record of V at another
\* facility has quantity > 50; the suggested donor is a candidate with the
\* least days_to_expiry of all candidates; and producing the suggestions
\* never fails, whatever the candidates' expiry values are.
C7_Redistribution ==
    Shown =>
        LET df == filtered(view.result[1].clean_df, sel.filter)
            so == filtered(view.result[1].stockouts, sel.filter)
            t  == Tab5View
        IN  /\ ~t.raised
            /\ \A i \in 1..Len(so) :
                  LET cands == {j \in 1..Len(df) :
                                   /\ df[j].Vaccine = so[i].Vaccine
                                   /\ df[j].Qty > 50
                                   /\ df[j].Health_Facility # so[i].Health_Facility}
                      sugg  == {k \in 1..Len(t.rows) :
                                   /\ t.rows[k].To_Facility = so[i].Health_Facility
                                   /\ t.rows[k].Vaccine_needed = so[i].Vaccine}
                  IN  /\ (sugg # {}) <=> (cands # {})
                      /\ \A k \in sugg :
                            /\ \E j \in cands :
                                  /\ df[j].Health_Facility = t.rows[k].Take_from_Facility
                                  /\ df[j].Qty = t.rows[k].Available_Vials
                                  /\ df[j].Days_to_Expiry = <<t.rows[k].Donor_Days>>
                            /\ \A j \in cands :
                                  df[j].Days_to_Expiry # <<>> =>
                                      t.rows[k].Donor_Days <= df[j].Days_to_Expiry[1]

\* C8 (SpecForecast): for every selected series with at least two snapshots
\* whose latest quantity is 0 the forecaster reports "currently out of
\* stock", whatever the earliest quantity and the elapsed days are.
C8_ZeroStockFirst ==
    (Shown /\ Tab6View # <<>>) =>
        \A f \in sel.hist_facility :
            LET sr == series(view.result[1].history, sel.hist_vax,
                             sel.hist_facility, f)
            IN  (Len(sr) >= 2 /\ sr[Len(sr)].Qty = 0)
                    => Tab6View[1][f].msg = "OUT_OF_STOCK"

----------------------------------------------------------------------------
(* Expiry labels month/year                                                 *)

\* a month number as the sheet may show it: "6" or "06"
short(n) == IF n < 10 THEN <<Digits[n + 1]>> ELSE digits2(n)

MonthNumbers == 0..14
YearNumbers == {0, 4, 24, 25, 26, 27, 28, 99}

MonthTexts == {short(n) : n \in MonthNumbers} \cup {digits2(n) : n \in MonthNumbers}
YearTexts == {digits2(n) : n \in YearNumbers}

\* parts that int() does not read as a number
OtherTexts == {<<>>, <<"a","b">>, <<"6","a">>, <<"J","u","n">>}

SlashLabels ==
    {a \o <<"/">> \o b : a \in MonthTexts \cup OtherTexts,
                        b \in YearTexts \cup OtherTexts}

ExpiryGrids ==
    {Grid(<<"BCG">>, <<Lot1>>, <<e>>, <<Row(Tubo, <<<<5>>>>)>>) :
        e \in SlashLabels \cup {NaN, Unreadable}}

InitExpiry == \E g \in ExpiryGrids : InitWith(g, EmptyHistory)

SpecExpiry == InitExpiry /\ [][Run]_vars

\* the last day of month m of year 2000 + yy, by the calendar rule
month_end(m, yy) ==
    IF m = 2 THEN (IF yy % 4 = 0 THEN 29 ELSE 28)
    ELSE IF m \in {4, 6, 9, 11} THEN 30 ELSE 31

\* C11 (SpecExpiry): for every expiry label M/YY or MM/YY with month in
\* 1..12 and a two-digit year, parse_expiry gives the last calendar day of
\* that month of year 2000+YY (28 or 29 for February by the leap-year rule);
\* for a label whose month is outside 1..12 or whose parts are not numeric
\* it gives null; and it gives a date or null, never an exception, for every
\* label (the page is rendered with an Expiry Date for every record).
C11_ParseExpiry ==
    Shown =>
        \A i \in 1..Len(view.result[1].clean_df) :
            LET r == view.result[1].clean_df[i]
            IN  /\ r.Expiry_Date = <<>> \/ r.Expiry_Date[1] \in Int
                /\ \A m \in MonthNumbers, yy \in YearNumbers :
                      r.Expiry \in {short(m) \o <<"/">> \o digits2(yy),
                                    digits2(m) \o <<"/">> \o digits2(yy)}
                        => IF m \in 1..12
                           THEN /\ r.Expiry_Date # <<>>
                                /\ strftime(r.Expiry_Date[1])
                                       = <<2000 + yy, m, month_end(m, yy)>>
                           ELSE r.Expiry_Date = <<>>
                /\ \A a \in MonthTexts \cup OtherTexts,
                      b \in YearTexts \cup OtherTexts :
                      (r.Expiry = a \o <<"/">> \o b
                          /\ (a \in OtherTexts \/ b \in OtherTexts))
                        => r.Expiry_Date = <<>>

\* a page whose record is labelled 2/28 and expires on 29 February 2028
C11_Witness ==
    /\ Shown
    /\ \E i \in 1..Len(view.result[1].clean_df) :
          /\ view.result[1].clean_df[i].Expiry = <<"2", "/", "2", "8">>
          /\ view.result[1].clean_df[i].Expiry_Date = <<toOrdinal(2028, 2, 29)>>

----------------------------------------------------------------------------
(* Two executions of load_and_prep_data in separate server processes: each  *)
(* reads the sheets and decides the gate (lines 79-138), and later writes   *)
(* and returns (lines 140-209); nothing orders the two.                     *)

other(p) == CHOOSE q \in Procs : q # p

in_gate(p) == inflight[p] # <<>> /\ inflight[p][1].pc = "gate"
done(p) == inflight[p] # <<>> /\ inflight[p][1].pc = "done"

\* lines 79-138: process p reads the grid and the log and decides the gate.
\* concurrent: the other process has read and not yet written.
Begin(p) ==
    /\ ~in_gate(p)
    /\ \E histOk \in BOOLEAN :
          inflight' =
              [q \in Procs |->
                  IF q = p
                  THEN <<[pc         |-> "gate",
                          history_df |-> history_frame(histOk, log),
                          melted     |-> melted_of(grid),
                          today      |-> today_date,
                          concurrent |-> in_gate(other(p)),
                          wrote      |-> FALSE,
                          second     |-> FALSE]>>
                  ELSE IF in_gate(q) THEN inflight[q] ELSE <<>>]
    /\ UNCHANGED <<grid, log, day, age, cache, view, last, sel>>

\* lines 140-209: process p writes the batch if its gate was open
Finish(p) ==
    /\ in_gate(p)
    /\ \E writeOk \in BOOLEAN :
          LET r == inflight[p][1]
          IN  /\ log' = sheet_after(log, r.history_df, r.melted, r.today, writeOk)
              /\ inflight' =
                    [inflight EXCEPT ![p] =
                        <<[r EXCEPT !.pc = "done",
                                    !.wrote = needs_update(r.history_df, r.today)
                                                 /\ writeOk,
                                    !.second = done(other(p))]>>]
    /\ UNCHANGED <<grid, day, age, cache, view, last, sel>>

Race == \E p \in Procs : Begin(p) \/ Finish(p)

InitRace == \E l \in {EmptyHistory, RecentLog} : InitWith(GridA, l)

SpecRace == InitRace /\ [][Race \/ NextDay]_vars

\* both processes read the log before either wrote, and both wrote a batch
\* for the same date
Raced ==
    /\ \A p \in Procs : done(p) /\ inflight[p][1].wrote
    /\ \E p \in Procs : inflight[p][1].concurrent
    /\ inflight[1][1].today = inflight[2][1].today

\* the log holds two rows of one (facility, vaccine) group for date d
double_batch(sheet, d) ==
    \E i, j \in 1..Len(sheet.rows) :
        /\ i < j
        /\ sheet.rows[i].Date = d
        /\ sheet.rows[j].Date = d
        /\ sheet.rows[i].Health_Facility = sheet.rows[j].Health_Facility
        /\ sheet.rows[i].Vaccine = sheet.rows[j].Vaccine

----------------------------------------------------------------------------
(* The cache window                                                         *)

\* the page script with its sidebar filter in use
SpecWindow ==
    InitWith(GridB, RecentLog)
        /\ [][Run \/ SelectFilter \/ ForceRefresh \/ Tick \/ NextDay \/ EditGrid]_vars

\* a result is cached and younger than the ttl
Live == cache # <<>> /\ age < CacheTTL

\* C13 (SpecWindow): while a successfully computed result is younger than the
\* cache window (300 seconds) and no Force Refresh is made, every script run
\* shows that cached result and load_and_prep_data is not executed: no read
\* of the grid or of the log is recorded, the log is not written, and the
\* cached result is not replaced by a fresh one; the page on show is the
\* cached result.
C13_CacheWindow ==
    /\ [](Live => view = page(cache[1]))
    /\ [][(Live /\ ~ForceRefresh) =>
             /\ log' = log
             /\ last' \in {last, [last EXCEPT !.ran = FALSE]}
             /\ age' >= age
             /\ cache' \in {cache, <<>>}
             /\ cache' = cache => view' = page(cache[1])]_vars

\* a page served from the cache, 150 seconds after the refresh, although the
\* grid has been edited since it was read
C13_Witness ==
    /\ Live
    /\ age = TickSeconds
    /\ ~last.ran
    /\ last.grid # <<>>
    /\ last.grid[1] # grid
    /\ view = page(cache[1])

----------------------------------------------------------------------------
(* Snapshots of a log that starts empty                                     *)

InitEmpty == \E g \in SampleGrids : InitWith(g, EmptyHistory)

SpecFromEmpty == InitEmpty /\ [][Next]_vars

\* the dates of the batches in the log, as day numbers
batch_days(sheet) ==
    {to_datetime(sheet.rows[i].Date)[1] :
        i \in {k \in 1..Len(sheet.rows) : to_datetime(sheet.rows[k].Date) # <<>>}}

\* the refresh recorded in last wrote its batch to the log
Wrote(l) == l.gridOk /\ l.attempted /\ l.writeOk /\ l.returned # <<>>

\* C14 (SpecFromEmpty): starting from an empty log, after any sequence of
\* refreshes run one after the other with a non-decreasing reference date,
\* whatever their reads and writes do, any two snapshot batches in the log
\* carry dates at least 7 days apart, no date has more than one batch, and
\* the refresh that follows a successful snapshot write on the same
\* reference date does not write again.
C14_BatchesApart ==
    /\ [](\A a, b \in batch_days(log) : a < b => b - a >= 7)
    /\ [](\A a \in batch_days(log) : ~double_batch(log, strftime(a)))
    /\ [][(Wrote(last) /\ last'.ran /\ last' # last /\ last'.today = last.today)
             => ~last'.attempted]_vars

====
